---- MODULE Spec2Model ----
(***************************************************************************)
(* restructure: recovery of control flow primitives from a control flow    *)
(* graph (src/restructure.go).  The driver (restructure, findPrim) is      *)
(* modelled statement by statement.  The packages it imports               *)
(* (decomp.org/x/graphs, .../iso, .../merge) and the primitive             *)
(* descriptions (dot files) are not part of the sources; they are modelled *)
(* from sections 3, 4.2 and 4.3 of the specification, with the boundary    *)
(* rule fixed by the golden output of TestRestructure.                     *)
(***************************************************************************)
EXTENDS Integers, Sequences, FiniteSets, TLC

VARIABLES
    subs,       \* the ordered list of subgraph names (restructure.go:258)
    input,      \* the control flow graph as parsed, kept for reference
    graph,      \* graph *dot.Graph: the live graph, mutated by merge.Merge
    used,       \* every node name ever used in this run (merge's id allocator)
    prims,      \* prims []*Primitive, the local of restructure
    pc,         \* position of restructure: "start", "loop", "find", "done"
    i,          \* index into subs of the range loop of findPrim (0 outside it)
    match,      \* m of findPrim: the mapping the last search returned
    result,     \* what restructure returned: [prims, err]; err = "none" before
    flagVerbose, \* flagVerbose: the -v flag (restructure.go:83)
    trace       \* what printMapping has written to os.Stderr, call by call

vars == <<subs, input, graph, used, prims, pc, i, match, result,
          flagVerbose, trace>>

----------------------------------------------------------------------------
(* Bounds of the model.                                                    *)

\* the largest number of nodes of an enumerated input graph
MaxNodes == 4
\* the largest number of edges of an enumerated input graph
MaxEdges == 3

----------------------------------------------------------------------------
(* Node names and their order (sort.Strings order of the names).           *)

\* names of input nodes, in lexicographic order
InputNames == <<"E", "F", "G", "H", "I", "J">>

\* names of the primitives, in lexicographic order ("if0" < "if_else0")
KindsSorted == <<"if", "if_else", "if_return", "list", "post_loop", "pre_loop">>

\* largest id number of a synthetic node the model names
MaxId == Len(InputNames)

RECURSIVE SynthNames(_, _)
SynthNames(k, n) ==
    IF k > Len(KindsSorted) THEN <<>>
    ELSE IF n > MaxId THEN SynthNames(k + 1, 0)
    ELSE <<KindsSorted[k] \o ToString(n)>> \o SynthNames(k, n + 1)

\* every node name of the model, in lexicographic order
SortedNames == InputNames \o SynthNames(1, 0)

Rank(name) == CHOOSE k \in 1..Len(SortedNames) : SortedNames[k] = name

----------------------------------------------------------------------------
(* Graphs: a set of node names and a set of directed edges.                *)

Graph(ns, es) == [nodes |-> ns, edges |-> es]

Preds(g, n) == {e[1] : e \in {d \in g.edges : d[2] = n}}

Succs(g, n) == {e[2] : e \in {d \in g.edges : d[1] = n}}

Range(f) == {f[x] : x \in DOMAIN f}

SeqRange(s) == {s[k] : k \in 1..Len(s)}

----------------------------------------------------------------------------
(* The primitives: graphs.SubGraph values, with entry and exit node.       *)

\* the subgraph a primitive description parses to (graphs.ParseSubGraph)
ParseSubGraph(name) ==
    CASE name = "list" ->
           [Name |-> "list", Roles |-> <<"A", "B">>,
            Edges |-> {<<"A", "B">>}, Entry |-> "A", Exit |-> "B"]
      [] name = "if" ->
           [Name |-> "if", Roles |-> <<"A", "B", "C">>,
            Edges |-> {<<"A", "B">>, <<"A", "C">>, <<"B", "C">>},
            Entry |-> "A", Exit |-> "C"]
      [] name = "if_else" ->
           [Name |-> "if_else", Roles |-> <<"A", "B", "C", "D">>,
            Edges |-> {<<"A", "B">>, <<"A", "C">>, <<"B", "D">>, <<"C", "D">>},
            Entry |-> "A", Exit |-> "D"]
      [] name = "pre_loop" ->
           [Name |-> "pre_loop", Roles |-> <<"A", "B", "C">>,
            Edges |-> {<<"A", "B">>, <<"A", "C">>, <<"B", "A">>},
            Entry |-> "A", Exit |-> "C"]
      [] name = "post_loop" ->
           [Name |-> "post_loop", Roles |-> <<"A", "B">>,
            Edges |-> {<<"A", "A">>, <<"A", "B">>},
            Entry |-> "A", Exit |-> "B"]
      [] name = "if_return" ->
           [Name |-> "if_return", Roles |-> <<"A", "B", "C">>,
            Edges |-> {<<"A", "B">>, <<"A", "C">>},
            Entry |-> "A", Exit |-> "C"]

\* subNames: the default primitives, in the order they are tried
subNames == <<"pre_loop", "post_loop", "list", "if", "if_else", "if_return">>

\* a list of primitives given with the -prims flag
customNames == <<"if_return", "list", "if">>

\* the values subs may have after init()
Libraries == {subNames, customNames}

SubGraphOf(sub) == Graph(SeqRange(sub.Roles), sub.Edges)

----------------------------------------------------------------------------
(* iso.Search: the first isomorphism of sub in graph, nodes taken in       *)
(* sorted order of their names.                                            *)

\* m maps every node of sub to a distinct node of g, every edge of sub is an
\* edge of g, and every node of sub but the entry has exactly the predecessors
\* the subgraph gives it, every node but the exit exactly the successors
IsValid(g, sub, m) ==
    LET sg == SubGraphOf(sub) IN
    /\ \A r1, r2 \in sg.nodes : r1 # r2 => m[r1] # m[r2]
    /\ \A e \in sub.Edges : <<m[e[1]], m[e[2]]>> \in g.edges
    /\ \A r \in sg.nodes :
         /\ r # sub.Entry => Preds(g, m[r]) = {m[p] : p \in Preds(sg, r)}
         /\ r # sub.Exit => Succs(g, m[r]) = {m[s] : s \in Succs(sg, r)}

\* the nodes of g whose numbers of predecessors and successors allow them to
\* stand for the node r of sub
Candidates(g, sub, r) ==
    LET sg == SubGraphOf(sub) IN
    {n \in g.nodes :
        /\ r # sub.Entry => Cardinality(Preds(g, n)) = Cardinality(Preds(sg, r))
        /\ r # sub.Exit => Cardinality(Succs(g, n)) = Cardinality(Succs(sg, r))}

RECURSIVE Assign(_, _, _, _)
\* the assignments ps of the first k - 1 nodes of sub, extended to all of
\* them, a node of g being used once
Assign(g, sub, k, ps) ==
    IF k > Len(sub.Roles) THEN ps
    ELSE Assign(g, sub, k + 1,
                UNION {{p @@ (sub.Roles[k] :> n) :
                           n \in Candidates(g, sub, sub.Roles[k]) \ Range(p)} :
                       p \in ps})

Isomorphisms(g, sub) ==
    {m \in Assign(g, sub, 2, {(sub.Roles[1] :> n) :
                                 n \in Candidates(g, sub, sub.Roles[1])}) :
        IsValid(g, sub, m)}

\* m1 comes before m2: at the first role where they differ, m1 has the node
\* whose name sorts first
Before(sub, m1, m2) ==
    \E k \in 1..Len(sub.Roles) :
        /\ \A j \in 1..(k - 1) : m1[sub.Roles[j]] = m2[sub.Roles[j]]
        /\ Rank(m1[sub.Roles[k]]) < Rank(m2[sub.Roles[k]])

\* iso.Search(graph, sub): (m, ok)
Search(g, sub) ==
    LET ms == Isomorphisms(g, sub) IN
    IF ms = {} THEN [ok |-> FALSE, m |-> <<>>]
    ELSE [ok |-> TRUE,
          m |-> CHOOSE m \in ms : \A m2 \in ms \ {m} : Before(sub, m, m2)]

----------------------------------------------------------------------------
(* merge.Merge: the nodes of an isomorphism become one new node.           *)

\* a variant: the first number that gives a name no node of the live graph
\* has, so that the name of a merged node may be given again
UniqNameLive(usedNames, name) ==
    name \o ToString(CHOOSE n \in 0..MaxId :
                        /\ name \o ToString(n) \notin graph.nodes
                        /\ \A k \in 0..(n - 1) : name \o ToString(k) \in graph.nodes)

\* the new node's name: the primitive's name and the first number that gives
\* a name never used in this run
UniqName(usedNames, name) ==
    name \o ToString(CHOOSE n \in 0..MaxId :
                        /\ name \o ToString(n) \notin usedNames
                        /\ \A k \in 0..(n - 1) : name \o ToString(k) \in usedNames)

\* merge.Merge(graph, m, sub): (graph after the merge, name of the new node, err)
Merge(g, usedNames, m, sub) ==
    LET old  == Range(m)
        node == UniqName(usedNames, sub.Name)
        to(n) == IF n \in old THEN node ELSE n
    IN  IF ~(old \subseteq g.nodes)
        THEN [ok |-> FALSE, node |-> "", graph |-> g]
        ELSE [ok |-> TRUE, node |-> node,
              graph |-> Graph((g.nodes \ old) \cup {node},
                              {<<to(e[1]), to(e[2])>> :
                                  e \in {d \in g.edges :
                                            ~(d[1] \in old /\ d[2] \in old)}})]

----------------------------------------------------------------------------
(* The input graphs.                                                       *)

RECURSIVE SubsetsUpTo(_, _)
\* the subsets of S with at most k elements
SubsetsUpTo(S, k) ==
    IF k = 0 THEN {{}}
    ELSE LET R == SubsetsUpTo(S, k - 1) IN R \cup {r \cup {x} : r \in R, x \in S}

FirstNames(n) == {InputNames[k] : k \in 1..n}

\* every graph of at most MaxNodes nodes and at most MaxEdges edges
SmallGraphs ==
    UNION {{Graph(FirstNames(n), es) :
               es \in SubsetsUpTo(FirstNames(n) \X FirstNames(n), MaxEdges)} :
           n \in 0..MaxNodes}

\* the example input of the package documentation (testdata/foo.dot)
FooGraph ==
    Graph({"E", "F", "G", "H"},
          {<<"E", "F">>, <<"E", "H">>, <<"F", "G">>, <<"G", "H">>})

\* six nodes: a two-way branch out of E that joins in J, and an edge J -> E
BranchLoopGraph ==
    Graph({"E", "F", "G", "H", "I", "J"},
          {<<"E", "F">>, <<"E", "G">>, <<"F", "H">>, <<"G", "I">>,
           <<"H", "J">>, <<"I", "J">>, <<"J", "E">>})

\* six nodes: a loop with header E and exit J whose body is a two-way
\* conditional F, G, H, I
LoopOverBranchGraph ==
    Graph({"E", "F", "G", "H", "I", "J"},
          {<<"E", "F">>, <<"E", "J">>, <<"F", "G">>, <<"F", "H">>,
           <<"G", "I">>, <<"H", "I">>, <<"I", "E">>, <<"I", "F">>})

\* five nodes in a row
ChainGraph ==
    Graph({"E", "F", "G", "H", "I"},
          {<<"E", "F">>, <<"F", "G">>, <<"G", "H">>, <<"H", "I">>})

\* three nodes in a row, the last one named like the node of a merge
SynthNamedGraph ==
    Graph({"E", "F", "list0"}, {<<"E", "F">>, <<"F", "list0">>})

InputGraphs ==
    SmallGraphs \cup {FooGraph, BranchLoopGraph, LoopOverBranchGraph,
                      ChainGraph, SynthNamedGraph}

----------------------------------------------------------------------------
(* The driver: restructure and findPrim.                                   *)

ErrEmpty == "unable to restructure empty graph"
ErrNoPrim == "unable to locate control flow primitive"
ErrMerge == "merge: node not in graph"

\* a bug: the test for the empty graph never succeeds
IsEmptyNever(g) == Cardinality(g.nodes) < 0

\* len(graph.Nodes.Nodes) == 0
IsEmpty(g) == Cardinality(g.nodes) = 0

\* a bug: the loop stops one node early
MoreNodesStopsEarly(g) == Cardinality(g.nodes) > 2

\* a bug: the loop goes on with one node left
MoreNodesGoesOn(g) == Cardinality(g.nodes) >= 1

\* the loop condition of restructure: len(graph.Nodes.Nodes) > 1
MoreNodes(g) == Cardinality(g.nodes) > 1

\* a bug: the two string fields of the primitive are exchanged
NewPrimitiveSwapped(node, sub, m) == [Prim |-> node, Node |-> sub.Name, Nodes |-> m]

\* prim := &Primitive{Node: node, Prim: sub.Name, Nodes: m}
NewPrimitive(node, sub, m) == [Prim |-> sub.Name, Node |-> node, Nodes |-> m]

\* a bug: the primitive is put in front of the list
AppendPrimInFront(ps, prim) == <<prim>> \o ps

\* prims = append(prims, prim)
AppendPrim(ps, prim) == Append(ps, prim)

\* a variant: the primitives located so far are returned with the error
ErrResultKeepsPrims(ps, err) == [returned |-> TRUE, prims |-> ps, err |-> err]

\* return nil, errutil.Err(err)
ErrResult(ps, err) == [returned |-> TRUE, prims |-> <<>>, err |-> err]

\* a bug: nil is returned for the primitives
OkResultNil(ps) == [returned |-> TRUE, prims |-> <<>>, err |-> "nil"]

\* return prims, nil
OkResult(ps) == [returned |-> TRUE, prims |-> ps, err |-> "nil"]

NotReturned == [returned |-> FALSE, prims |-> <<>>, err |-> "nil"]

\* a bug: the merge leaves the edges of graph as they were
MergedGraphOldEdges(g, merged) == [merged EXCEPT !.edges = g.edges]

\* a bug: the merge works on a copy and graph stays as it was
MergedGraphCopy(g, merged) == g

\* the graph after merge.Merge(graph, m, sub), which changes it in place
MergedGraph(g, merged) == merged

\* a bug: the range loop leaves out the first element of subs
FirstSubSkipped == 1 + 1

\* the range loop of findPrim starts at the first element of subs
FirstSub == 1

\* the subgraph the range loop of findPrim is at
SubAt(k) == ParseSubGraph(subs[k])

Init ==
    /\ subs \in Libraries
    /\ input \in InputGraphs
    /\ graph = input
    /\ used = input.nodes
    /\ prims = <<>>
    /\ pc = "start"
    /\ i = 0
    /\ match = <<>>
    /\ result = NotReturned
    /\ flagVerbose = FALSE
    /\ trace = <<>>

\* restructure, up to the loop: the empty graph is an error
CheckEmpty ==
    /\ pc = "start"
    /\ IF IsEmpty(graph)
       THEN /\ result' = ErrResult(prims, ErrEmpty)
            /\ pc' = "done"
       ELSE /\ pc' = "loop"
            /\ UNCHANGED result
    /\ UNCHANGED <<subs, input, graph, used, prims, i, match,
                   flagVerbose, trace>>

\* restructure: the loop condition holds and findPrim is called
EnterFindPrim ==
    /\ pc = "loop"
    /\ MoreNodes(graph)
    /\ pc' = "find"
    /\ i' = FirstSub
    /\ UNCHANGED <<subs, input, graph, used, prims, match, result,
                   flagVerbose, trace>>

\* restructure: the loop condition fails and prims is returned
ReturnPrims ==
    /\ pc = "loop"
    /\ ~MoreNodes(graph)
    /\ result' = OkResult(prims)
    /\ pc' = "done"
    /\ UNCHANGED <<subs, input, graph, used, prims, i, match,
                   flagVerbose, trace>>

\* a bug: ok is not looked at
LocatedAlways(s) == TRUE

\* ok of m, ok := iso.Search(graph, sub)
Located(s) == s.ok

\* findPrim: subs[i] has no isomorphism in graph; the next one is tried
TryNext ==
    /\ pc = "find"
    /\ i <= Len(subs)
    /\ \E s \in {Search(graph, SubAt(i))} :
           /\ ~Located(s)
           /\ match' = s.m
    /\ i' = i + 1
    /\ UNCHANGED <<subs, input, graph, used, prims, pc, result,
                   flagVerbose, trace>>

\* the names of the nodes of the subgraphs, in the order of sort.Strings
RoleNames == <<"A", "B", "C", "D">>

\* sort.Strings(snames) for the names of the set S
SortStrings(S) == SelectSeq(RoleNames, LAMBDA r : r \in S)

\* a bug: the node reported is that of the exit of sub
printMappingOfExit(sub, m) ==
    LET snames == SortStrings(DOMAIN m)
    IN  [Name |-> sub.Name, Entry |-> m[sub.Exit],
         Lines |-> [k \in 1..Len(snames) |-> <<snames[k], m[snames[k]]>>]]

\* printMapping(graph, sub, m): the head line, with the name of sub and the
\* node of its entry, and one line for each name of m, in sorted order
printMapping(sub, m) ==
    LET snames == SortStrings(DOMAIN m)
    IN  [Name |-> sub.Name, Entry |-> m[sub.Entry],
         Lines |-> [k \in 1..Len(snames) |-> <<snames[k], m[snames[k]]>>]]

\* a bug: the error of merge.Merge is not looked at
MergeFailedIgnored(mg) == FALSE

\* err != nil after merge.Merge
MergeFailed(mg) == ~mg.ok

\* findPrim from the merge on, for the mapping mm of sub: the nodes of mm are
\* merged, the primitive is returned and restructure appends it; or
\* restructure returns the error of the merge
MergeAndAppend(sub, mm) ==
    LET mg == Merge(graph, used, mm, sub)
    IN  /\ match' = mm
        /\ trace' = IF flagVerbose THEN Append(trace, printMapping(sub, mm))
                               ELSE trace
        /\ IF MergeFailed(mg)
           THEN /\ result' = ErrResult(prims, ErrMerge)
                /\ pc' = "done"
                /\ UNCHANGED <<graph, used, prims>>
           ELSE /\ graph' = MergedGraph(graph, mg.graph)
                /\ used' = used \cup {mg.node}
                /\ prims' = AppendPrim(prims, NewPrimitive(mg.node, sub, mm))
                /\ pc' = "loop"
                /\ UNCHANGED result
        /\ i' = 0
        /\ UNCHANGED <<subs, input, flagVerbose>>

\* findPrim: subs[i] has an isomorphism; its nodes are merged, the primitive
\* is returned and restructure appends it (or returns the error of the merge)
FoundPrim ==
    /\ pc = "find"
    /\ i <= Len(subs)
    /\ \E s \in {Search(graph, SubAt(i))} :
           /\ Located(s)
           /\ MergeAndAppend(SubAt(i), s.m)

\* findPrim: no subgraph of subs was located; restructure returns the error
NoPrim ==
    /\ pc = "find"
    /\ i > Len(subs)
    /\ result' = ErrResult(prims, ErrNoPrim)
    /\ pc' = "done"
    /\ i' = 0
    /\ UNCHANGED <<subs, input, graph, used, prims, match,
                   flagVerbose, trace>>

Next ==
    \/ CheckEmpty
    \/ EnterFindPrim
    \/ ReturnPrims
    \/ TryNext
    \/ FoundPrim
    \/ NoPrim

Spec == Init /\ [][Next]_vars

\* restructure run with the flag -v
VerboseInit ==
    /\ subs \in Libraries
    /\ input \in InputGraphs
    /\ graph = input
    /\ used = input.nodes
    /\ prims = <<>>
    /\ pc = "start"
    /\ i = 0
    /\ match = <<>>
    /\ result = NotReturned
    /\ flagVerbose = TRUE
    /\ trace = <<>>

VerboseSpec == VerboseInit /\ [][Next]_vars

----------------------------------------------------------------------------
(* The driver with merge.Merge given any mapping: in its first step         *)
(* findPrim may get from the search any one-to-one mapping of the nodes of  *)
(* the subgraph, also one that names a node the graph does not have.        *)

\* the largest number of nodes of an input graph of MergeSpec
MergeNodes == 3
\* the largest number of edges of an input graph of MergeSpec
MergeEdges == 2

\* a node name no graph has
Absent == "Z"

MergeGraphs ==
    UNION {{Graph(FirstNames(n), es) :
               es \in SubsetsUpTo(FirstNames(n) \X FirstNames(n), MergeEdges)} :
           n \in 0..MergeNodes}

\* the one-to-one mappings of the nodes of sub to nodes of g and Absent
Mappings(g, sub) ==
    {mm \in [SeqRange(sub.Roles) -> g.nodes \cup {Absent}] :
        \A r1, r2 \in SeqRange(sub.Roles) : r1 # r2 => mm[r1] # mm[r2]}

MergeInit ==
    /\ subs \in Libraries
    /\ input \in MergeGraphs
    /\ graph = input
    /\ used = input.nodes
    /\ prims = <<>>
    /\ pc = "start"
    /\ i = 0
    /\ match = <<>>
    /\ result = NotReturned
    /\ flagVerbose = FALSE
    /\ trace = <<>>

\* findPrim in the first step: the search for subs[i] returns the mapping mm
GivenMatch ==
    /\ pc = "find"
    /\ i <= Len(subs)
    /\ prims = <<>>
    /\ \E mm \in Mappings(graph, SubAt(i)) : MergeAndAppend(SubAt(i), mm)

MergeNext == Next \/ GivenMatch

MergeSpec == MergeInit /\ [][MergeNext]_vars

----------------------------------------------------------------------------
(* Outcomes of a run.                                                      *)

Done == pc = "done"
Success == Done /\ result.err = "nil"
Stuck == Done /\ result.err = ErrNoPrim
InputError == Done /\ result.err = ErrEmpty
MergeError == Done /\ result.err = ErrMerge

TypeOK ==
    /\ subs \in Libraries
    /\ pc \in {"start", "loop", "find", "done"}
    /\ i \in 0..(Len(subs) + 1)
    /\ graph.edges \subseteq graph.nodes \X graph.nodes
    /\ flagVerbose \in BOOLEAN
    /\ Len(trace) <= Len(prims) + 1

----------------------------------------------------------------------------
(* Properties of the driver.                                               *)

\* the indices of subs whose subgraph has an isomorphism in g
Matching(g) == {k \in 1..Len(subs) : Isomorphisms(g, SubAt(k)) # {}}

\* C1: a step that appends to prims is taken with more than one node in the
\* graph and appends exactly one Primitive; its kind is that of the subgraph
\* of lowest index in subs that has an isomorphism in the graph as it was
\* before the step, its mapping is the isomorphism found for that subgraph and
\* its node is the one new node of the graph.  The subgraphs are tried in the
\* order of subs, and a failed trial leaves the graph as it was.
C1_FirstMatchWins ==
    [][/\ prims' # prims =>
            /\ Cardinality(graph.nodes) > 1
            /\ Len(prims') = Len(prims) + 1
            /\ SubSeq(prims', 1, Len(prims)) = prims
            /\ Matching(graph) # {}
            /\ LET k == CHOOSE j \in Matching(graph) :
                            \A l \in Matching(graph) : j <= l
                   p == prims'[Len(prims')]
               IN  /\ i = k
                   /\ p.Prim = SubAt(k).Name
                   /\ p.Nodes = Search(graph, SubAt(k)).m
                   /\ graph'.nodes \ graph.nodes = {p.Node}
       /\ (pc = "find" /\ pc' = "find") =>
            /\ i' = i + 1
            /\ i \notin Matching(graph)
            /\ graph' = graph
       /\ (pc = "loop" /\ pc' = "find") => i' = 1
      ]_vars

\* C1 witness: a Primitive was appended by a trial that was not the first of
\* its step, in a graph where a later subgraph of subs matched as well
C1_Witness ==
    /\ Len(prims) = 1
    /\ pc = "loop"
    /\ \E k \in Matching(input) : k > 1 /\ SubAt(k).Name = prims[1].Prim
    /\ Cardinality(Matching(input)) > 1

C3_SuccessIffOneNode ==
    /\ Success => /\ Cardinality(graph.nodes) = 1
                  /\ result.prims = prims
                  /\ prims # <<>> => graph.nodes = {prims[Len(prims)].Node}
    /\ (Done /\ Cardinality(graph.nodes) = 1) => Success
    /\ pc = "find" => Cardinality(graph.nodes) > 1

\* C3 witness: a run of two steps ended with one node
C3_Witness == Success /\ Len(result.prims) = 2 /\ Cardinality(input.nodes) = 4

\* C4: a graph without nodes is an error before any subgraph is searched; the
\* error is not the one of a failed search and there is no Primitive
C4_EmptyGraphRejected ==
    /\ input.nodes = {} =>
         /\ pc \in {"start", "done"}
         /\ i = 0
         /\ prims = <<>>
         /\ graph = input
         /\ Done => /\ InputError
                    /\ result.err # ErrNoPrim
                    /\ result.prims = <<>>
    /\ InputError => input.nodes = {}

\* C4 witness: the run on the graph without nodes has returned
C4_Witness == input.nodes = {} /\ Done /\ result.returned

\* C5: with one node in the input, restructure returns at once, without
\* error and with no Primitive; no subgraph is searched
C5_OneNodeInput ==
    Cardinality(input.nodes) = 1 =>
        /\ pc \in {"start", "loop", "done"}
        /\ i = 0
        /\ prims = <<>>
        /\ graph = input
        /\ Done => Success /\ result.prims = <<>>

\* C5 witness: the run on one node with a self-loop has returned
C5_Witness ==
    /\ Cardinality(input.nodes) = 1
    /\ input.edges # {}
    /\ Done /\ result.returned

----------------------------------------------------------------------------
(* The two golden runs of TestRestructure.                                 *)

\* the Primitives wanted for testdata/foo.dot
FooPrims ==
    <<[Prim |-> "list", Node |-> "list0",
       Nodes |-> ("A" :> "F" @@ "B" :> "G")],
      [Prim |-> "if", Node |-> "if0",
       Nodes |-> ("A" :> "E" @@ "B" :> "list0" @@ "C" :> "H")]>>

\* the Primitives wanted for testdata/bar.dot
BarPrims ==
    <<[Prim |-> "if_else", Node |-> "if_else0",
       Nodes |-> ("A" :> "F" @@ "B" :> "G" @@ "C" :> "H" @@ "D" :> "I")],
      [Prim |-> "pre_loop", Node |-> "pre_loop0",
       Nodes |-> ("A" :> "E" @@ "B" :> "if_else0" @@ "C" :> "J")]>>

\* C6: on the graph E->F, E->H, F->G, G->H with the default primitives the
\* run ends without error and returns list/list0/{A:F,B:G} followed by
\* if/if0/{A:E,B:list0,C:H}
C6_FooGolden ==
    (input = FooGraph /\ subs = subNames /\ Done) =>
        Success /\ result.prims = FooPrims

\* C6 witness: the run on that graph with the default primitives has returned
C6_Witness ==
    input = FooGraph /\ subs = subNames /\ Done /\ Len(prims) = 2

----------------------------------------------------------------------------
(* Properties of the list of Primitives.                                   *)

\* the node names the mapping of the k-th Primitive refers to
Mapped(k) == Range(prims[k].Nodes)

\* C8: every node the mapping of prims[k] refers to is a node of the input
\* graph or the node of an earlier Primitive, and is not the node of prims[k]
\* or of a later one
C8_ReferenceValidity ==
    \A k \in 1..Len(prims) : \A v \in Mapped(k) :
        /\ v \in input.nodes \/ \E j \in 1..(k - 1) : prims[j].Node = v
        /\ \A j \in k..Len(prims) : prims[j].Node # v

\* C8 witness: a Primitive refers to the node of an earlier one
C8_Witness ==
    \E k \in 1..Len(prims) : \E j \in 1..(k - 1) : prims[j].Node \in Mapped(k)

\* C9: within a mapping no node occurs twice, no node occurs in the mappings
\* of two Primitives, and a node that was merged is no longer in the graph
C9_Consumption ==
    /\ \A k \in 1..Len(prims) :
         /\ Cardinality(Mapped(k)) = Cardinality(DOMAIN prims[k].Nodes)
         /\ Mapped(k) \cap graph.nodes = {}
    /\ \A j, k \in 1..Len(prims) : j # k => Mapped(j) \cap Mapped(k) = {}

\* C9 witness: three Primitives were located in one run
C9_Witness == Len(prims) = 3

RECURSIVE Expand(_, _)
\* the input nodes the node n stands for, given the Primitives 1..k
Expand(n, k) ==
    IF k = 0 THEN {n}
    ELSE IF prims[k].Node = n
         THEN UNION {Expand(v, k - 1) : v \in Mapped(k)}
         ELSE Expand(n, k - 1)

\* C10: in every state the nodes of the graph stand for disjoint sets of
\* input nodes that together are all the input nodes; when a run on more than
\* one node ends without error, every input node is in the mapping of exactly
\* one Primitive and the node of the last Primitive stands for all of them
C10_Partition ==
    /\ \A n1, n2 \in graph.nodes :
         n1 # n2 => Expand(n1, Len(prims)) \cap Expand(n2, Len(prims)) = {}
    /\ UNION {Expand(n, Len(prims)) : n \in graph.nodes} = input.nodes
    /\ (Success /\ Cardinality(input.nodes) > 1) =>
         /\ \A o \in input.nodes :
              Cardinality({k \in 1..Len(result.prims) :
                              o \in Range(result.prims[k].Nodes)}) = 1
         /\ Expand(result.prims[Len(result.prims)].Node, Len(prims))
              = input.nodes

\* C10 witness: a node of the graph stands for input nodes through a chain of
\* two Primitives, with other nodes beside it
C10_Witness ==
    /\ Cardinality(graph.nodes) > 1
    /\ \E k \in 1..Len(prims) : \E j \in 1..(k - 1) :
         /\ prims[j].Node \in Mapped(k)
         /\ prims[k].Node \in graph.nodes

----------------------------------------------------------------------------
(* Replaying the returned Primitives on the input graph.                   *)

\* the rewrite a Primitive p stands for, on the graph g: the nodes of its
\* mapping become its node
Rewrite(g, p) ==
    LET old == Range(p.Nodes)
        end(n) == IF n \in old THEN p.Node ELSE n
    IN  Graph((g.nodes \ old) \cup {p.Node},
              {<<end(e[1]), end(e[2])>> :
                  e \in {d \in g.edges : {d[1], d[2]} \ old # {}}})

RECURSIVE Replay(_, _)
\* the input graph after the rewrites of the first k Primitives of ps
Replay(ps, k) == IF k = 0 THEN input ELSE Rewrite(Replay(ps, k - 1), ps[k])

\* C11: when a run ends without error with at least one Primitive, the
\* replay of the returned Primitives on the input graph finds, at every
\* step, all nodes of the mapping in the replayed graph and the node of the
\* Primitive not yet in it, and ends with one node, the node of the last
\* Primitive
C11_ReplaySound ==
    (Success /\ Len(result.prims) > 0) =>
        LET ps == result.prims IN
        /\ \A k \in 1..Len(ps) :
             /\ Range(ps[k].Nodes) \subseteq Replay(ps, k - 1).nodes
             /\ ps[k].Node \notin Replay(ps, k - 1).nodes
        /\ Replay(ps, Len(ps)).nodes = {ps[Len(ps)].Node}
        /\ Replay(ps, Len(ps)) = graph

\* C11 witness: a run of three steps ended without error
C11_Witness == Success /\ Len(result.prims) = 3

----------------------------------------------------------------------------
(* The result as a function of the input graph and the list of subgraphs.  *)

RECURSIVE RunFrom(_, _, _)
\* what a run returns from the graph g with the names ns used and the
\* Primitives ps located: the subgraph of lowest index with an isomorphism
\* is merged until one node is left or none has one
RunFrom(g, ns, ps) ==
    IF Cardinality(g.nodes) <= 1 THEN [prims |-> ps, err |-> "nil"]
    ELSE IF Matching(g) = {} THEN [prims |-> <<>>, err |-> ErrNoPrim]
    ELSE LET k   == CHOOSE j \in Matching(g) : \A l \in Matching(g) : j <= l
             sub == SubAt(k)
             mm  == Search(g, sub).m
             mg  == Merge(g, ns, mm, sub)
         IN  RunFrom(mg.graph, ns \cup {mg.node},
                     Append(ps, [Prim |-> sub.Name, Node |-> mg.node,
                                 Nodes |-> mm]))

\* the one result of the runs on the input graph with the list subs
Outcome ==
    IF input.nodes = {} THEN [prims |-> <<>>, err |-> ErrEmpty]
    ELSE RunFrom(input, input.nodes, <<>>)

----------------------------------------------------------------------------
(* The names of the nodes the merges introduce.                            *)

\* C13: the node of every Primitive has a name that no node of the input
\* graph has, that no earlier Primitive gave to its node and that no mapping
\* up to its own refers to, also when the nodes of those names have been
\* merged away since; among the Primitives of one kind the numbers of the
\* names increase
C13_FreshNames ==
    \A k \in 1..Len(prims) :
        /\ prims[k].Node \notin input.nodes
        /\ prims[k].Node \in used
        /\ \A j \in 1..(k - 1) : prims[j].Node # prims[k].Node
        /\ \A j \in 1..k : prims[k].Node \notin Mapped(j)
        /\ \A j \in 1..(k - 1) :
             prims[j].Prim = prims[k].Prim =>
                 Rank(prims[j].Node) < Rank(prims[k].Node)

\* C13 witness: a fourth node of kind list was named after the first two had
\* been merged away
C13_Witness ==
    /\ Len(prims) = 4
    /\ \A k \in 1..4 : prims[k].Prim = "list"
    /\ {prims[1].Node, prims[2].Node} \cap graph.nodes = {}

\* C13 witness of the other case: a node of kind list was named in a run
\* whose input graph has a node list0
C13_InputNamedLikeSynth ==
    /\ "list0" \in input.nodes
    /\ Len(prims) > 0
    /\ prims[1].Prim = "list"

----------------------------------------------------------------------------
(* The effect of a merge on the graph.                                     *)

\* the step appends a Primitive, the merge of the mapping match'
Merged == Len(prims') = Len(prims) + 1

\* C14: a merge takes the nodes of the mapping out of the graph and puts in
\* the one new node; an edge with no end among the merged nodes stays, an
\* edge with one end among them has that end at the new node and keeps its
\* direction, an edge with both ends among them is gone, no other edge
\* appears, and edges that come to have the same ends are one edge
C14_MergeEffect ==
    [][Merged =>
        LET old  == Range(match')
            node == prims'[Len(prims')].Node
        IN  /\ prims'[Len(prims')].Nodes = match'
            /\ node \notin graph.nodes
            /\ graph'.nodes = (graph.nodes \ old) \cup {node}
            /\ \A e \in graph.edges :
                 /\ (e[1] \notin old /\ e[2] \notin old) => e \in graph'.edges
                 /\ (e[1] \in old /\ e[2] \notin old) =>
                        <<node, e[2]>> \in graph'.edges
                 /\ (e[1] \notin old /\ e[2] \in old) =>
                        <<e[1], node>> \in graph'.edges
            /\ \A e \in graph'.edges :
                 /\ e # <<node, node>>
                 /\ (e[1] = node /\ e[2] # node) =>
                        \E a \in old : <<a, e[2]>> \in graph.edges
                 /\ (e[1] # node /\ e[2] = node) =>
                        \E a \in old : <<e[1], a>> \in graph.edges
                 /\ (e[1] # node /\ e[2] # node) => e \in graph.edges
            /\ Cardinality(graph'.edges) <=
                 Cardinality({e \in graph.edges : {e[1], e[2]} \ old # {}})
      ]_vars

\* C14 witness: after the merge of two nodes the two edges that led to them
\* from a third node are one edge
C14_Witness ==
    /\ Len(prims) = 1
    /\ graph.nodes = (input.nodes \ Mapped(1)) \cup {prims[1].Node}
    /\ \E n \in input.nodes \ Mapped(1) :
         /\ Cardinality({e \in input.edges : e[1] = n /\ e[2] \in Mapped(1)}) = 2
         /\ Cardinality({e \in graph.edges : e[1] = n}) = 1

----------------------------------------------------------------------------
(* The mappings the search returns.                                        *)

\* the edges of g that end or start at the node n
EdgesAt(g, n) == {e \in g.edges : e[1] = n \/ e[2] = n}

\* C15: the mapping of every merge of a run maps all nodes of the subgraph,
\* each to another node of the graph; every edge of the subgraph is an edge
\* of the graph in the same direction; and a node that stands for a node of
\* the subgraph other than entry and exit has exactly the edges the subgraph
\* gives it.  A search that fails gives no mapping and no error, and it fails
\* only if the subgraph has no such mapping.
C15_MatchIsIsomorphism ==
    [][/\ Merged =>
            LET sub == SubAt(i)
                rs  == SeqRange(sub.Roles)
                mm  == prims'[Len(prims')].Nodes
            IN  /\ DOMAIN mm = rs
                /\ \A r \in rs : mm[r] \in graph.nodes
                /\ \A r1, r2 \in rs : r1 # r2 => mm[r1] # mm[r2]
                /\ \A e \in sub.Edges : <<mm[e[1]], mm[e[2]]>> \in graph.edges
                /\ \A r \in rs \ {sub.Entry, sub.Exit} :
                     EdgesAt(graph, mm[r]) =
                         {<<mm[e[1]], mm[e[2]]>> :
                             e \in EdgesAt(SubGraphOf(sub), r)}
       /\ (pc = "find" /\ pc' = "find") =>
            /\ match' = <<>>
            /\ result' = result
            /\ prims' = prims
            /\ Isomorphisms(graph, SubAt(i)) = {}
      ]_vars

\* C15 witness: a subgraph with a node between entry and exit was located
\* where the entry has an edge from a node outside the mapping
C15_Witness ==
    /\ Len(prims) = 1
    /\ prims[1].Prim \in {"if", "if_return", "pre_loop"}
    /\ \E e \in input.edges :
         e[2] = prims[1].Nodes["A"] /\ e[1] \notin Mapped(1)

----------------------------------------------------------------------------
(* The error of the merge.                                                 *)

\* the step hands the mapping match' to merge.Merge
MergeCalled == pc = "find" /\ i' = 0 /\ match' # <<>>

\* C16: a merge whose mapping names a node the graph does not have fails;
\* restructure then returns that error and nil, no Primitive is appended, the
\* graph stays as it was and no other subgraph is tried.  A merge fails for
\* no other mapping, so never for the mapping the search returns for the
\* live graph.
C16_MergeError ==
    [][/\ MergeCalled =>
            /\ ~(Range(match') \subseteq graph.nodes) <=> result'.err = ErrMerge
            /\ result'.err = ErrMerge =>
                 /\ pc' = "done"
                 /\ result'.returned /\ result'.prims = <<>>
                 /\ prims' = prims
                 /\ graph' = graph
            /\ (Search(graph, SubAt(i)).ok /\ match' = Search(graph, SubAt(i)).m)
                 => result'.err # ErrMerge
       /\ result'.err = ErrMerge => (MergeCalled \/ result.err = ErrMerge)
       /\ pc = "done" => vars' = vars
      ]_vars

\* C16 witness: restructure returned the error of a merge
C16_Witness == MergeError /\ Absent \in Range(match) /\ prims = <<>>

----------------------------------------------------------------------------
(* Termination.                                                            *)

\* what is left to do: the nodes of the graph, each counted for a whole
\* pass of the loop of restructure, and the steps left in the pass
Measure ==
    Cardinality(graph.nodes) * (Len(subs) + 4)
        + (CASE pc = "start" -> Len(subs) + 3
             [] pc = "loop"  -> Len(subs) + 2
             [] pc = "find"  -> Len(subs) + 2 - i
             [] pc = "done"  -> 0)

\* C17: every run comes to its end: as long as restructure has not returned
\* it has a step to take, and every step takes the measure down, which is
\* never below zero.  On a graph with nodes the end is a return without error
\* or the error of a failed search; a merge of a subgraph of k nodes leaves
\* the graph with k - 1 nodes less, and a run on n nodes appends at most
\* n - 1 Primitives.
C17_Terminates ==
    /\ [](Done \/ ENABLED Next)
    /\ [](Measure >= 0)
    /\ [][Measure' < Measure]_vars
    /\ [](Done /\ input.nodes # {} => Success \/ Stuck)
    /\ [](Len(prims) <= IF input.nodes = {} THEN 0
                        ELSE Cardinality(input.nodes) - 1)
    /\ [][Merged => Cardinality(graph'.nodes) =
                      Cardinality(graph.nodes) - (Len(SubAt(i).Roles) - 1)]_vars

\* C17 witness: a run on five nodes ended after four merges
C17_Witness == Done /\ Cardinality(input.nodes) = 5 /\ Len(prims) = 4

----------------------------------------------------------------------------
(* The graph stays a graph.                                                *)

\* the nodes the edges of g start from or lead to
Endpoints(g) == {e[1] : e \in g.edges} \cup {e[2] : e \in g.edges}

\* C18: at every point of a run on a graph with nodes, the edges of the
\* graph start from and lead to nodes of the graph (none to a node a merge
\* took away), and the graph has a node.  The edges are a set of pairs: a
\* pair of nodes is one edge or none.
C18_WellFormed ==
    input.nodes # {} =>
        /\ graph.nodes # {}
        /\ Endpoints(graph) \subseteq graph.nodes
        /\ graph.edges \subseteq graph.nodes \X graph.nodes
        /\ \A k \in 1..Len(prims) : Endpoints(graph) \cap Mapped(k) = {}

\* C18 witness: after two merges the graph has an edge from the node of the
\* second merge and an edge to it
C18_Witness ==
    /\ Len(prims) = 2
    /\ \E e \in graph.edges : e[1] = prims[2].Node /\ e[2] # prims[2].Node
    /\ \E e \in graph.edges : e[2] = prims[2].Node /\ e[1] # prims[2].Node

----------------------------------------------------------------------------
(* What a step leaves alone.                                               *)

\* the step is a trial of findPrim that located nothing
FailedTrial == pc = "find" /\ pc' = "find"

\* the step is the return of findPrim after the last trial
NoMatchStep == pc = "find" /\ result'.err = ErrNoPrim

\* C19: the graph changes in no step but the one that appends a Primitive,
\* and there it becomes what the merge of the mapping makes of the graph as
\* it was before the step; the mapping is the one the search returned for
\* that graph.  A trial that locates nothing, and the step that gives up
\* after the last trial, leave graph and prims as they were.  No step changes
\* subs.
C19_Frame ==
    [][/\ graph' # graph <=> Merged
       /\ Merged =>
            /\ Search(graph, SubAt(i)).ok
            /\ match' = Search(graph, SubAt(i)).m
            /\ graph' = Merge(graph, used, match', SubAt(i)).graph
       /\ FailedTrial \/ NoMatchStep => graph' = graph /\ prims' = prims
       /\ subs' = subs
       /\ input' = input]_vars

\* C19 witness: with a Primitive found, two trials have failed on a graph
\* that still has all the nodes and edges the merge left
C19_Witness ==
    /\ pc = "find"
    /\ i = 3
    /\ Len(prims) = 1
    /\ graph = Merge(input, input.nodes, prims[1].Nodes, ParseSubGraph(prims[1].Prim)).graph

----------------------------------------------------------------------------
(* The ends of a run.                                                      *)

\* C20: restructure returns the error of the failed search exactly when it
\* returns with more than one node in the graph, and then no subgraph of
\* subs has an isomorphism in the graph; while a subgraph has one, or the
\* graph has one node, the failed search is not what comes next.  A run has
\* one end, return without error, the failed search, the empty graph or the
\* failed merge, and after it no step is taken.  prims changes only by one
\* Primitive appended at its end.
C20_Outcomes ==
    /\ [](Stuck <=> Done /\ Cardinality(graph.nodes) > 1)
    /\ [](Stuck => Matching(graph) = {})
    /\ [](Success <=> Done /\ Cardinality(graph.nodes) = 1)
    /\ [](Done => Cardinality({o \in {"success", "stuck", "input", "merge"} :
                                  \/ o = "success" /\ Success
                                  \/ o = "stuck" /\ Stuck
                                  \/ o = "input" /\ InputError
                                  \/ o = "merge" /\ MergeError}) = 1)
    /\ [][/\ ~Done
          /\ result'.err = ErrNoPrim =>
                Cardinality(graph.nodes) > 1 /\ Matching(graph) = {}
          /\ prims' # prims =>
                /\ Len(prims') = Len(prims) + 1
                /\ SubSeq(prims', 1, Len(prims)) = prims]_vars

\* C20 witness: the search has failed on a graph of more than one node,
\* after two Primitives were found
C20_Witness ==
    /\ Stuck
    /\ Len(prims) = 2
    /\ Cardinality(graph.nodes) > 1

----------------------------------------------------------------------------
(* The trace of a run with -v.                                             *)

\* the mapping the lines of an entry of the trace spell out
MappingOf(entry) ==
    [r \in {entry.Lines[k][1] : k \in 1..Len(entry.Lines)} |->
        entry.Lines[CHOOSE k \in 1..Len(entry.Lines) : entry.Lines[k][1] = r][2]]

\* C22: in a run with -v the trace has one entry for each Primitive of
\* prims, in the same order: an entry is written in a step exactly when the
\* step appends a Primitive, it is written at the end of the trace, it has
\* the name of the subgraph and, name by name in sorted order and each name
\* once, the mapping of that Primitive, and the node it reports is the one
\* the entry of the subgraph is mapped to.
C22_TraceMatchesPrims ==
    /\ [](flagVerbose)
    /\ [](Len(trace) = Len(prims))
    /\ [](\A k \in 1..Len(trace) :
            /\ trace[k].Name = prims[k].Prim
            /\ Len(trace[k].Lines) = Cardinality(DOMAIN prims[k].Nodes)
            /\ MappingOf(trace[k]) = prims[k].Nodes
            /\ \A j \in 1..(Len(trace[k].Lines) - 1) :
                 \E a, b \in 1..Len(RoleNames) :
                    /\ a < b
                    /\ RoleNames[a] = trace[k].Lines[j][1]
                    /\ RoleNames[b] = trace[k].Lines[j + 1][1]
            /\ trace[k].Entry = prims[k].Nodes[ParseSubGraph(prims[k].Prim).Entry])
    /\ [][/\ trace' # trace <=> Merged
          /\ trace' # trace =>
                /\ Len(trace') = Len(trace) + 1
                /\ SubSeq(trace', 1, Len(trace)) = trace]_vars

\* C22 witness: a run with -v has written two entries, for Primitives of two
\* kinds, the second one with a node of three names whose entry is a node a
\* merge made
C22_Witness ==
    /\ flagVerbose
    /\ Len(trace) = 2
    /\ trace[1].Name # trace[2].Name
    /\ Len(trace[2].Lines) = 3
    /\ trace[2].Entry = prims[1].Node

====
